---- MODULE Spec2Model ----
(***************************************************************************)
(* Day3_MoE.ipynb: a mixture-of-experts classifier for CIFAR-10.           *)
(*                                                                         *)
(* The notebook is a list of cells executed top to bottom.  The model      *)
(* keeps the cells still to run (todo) and the cells already run (done),   *)
(* the checkpoint directories, the layers of the Keras graph with their    *)
(* trainable flags and weights, the label arrays of the datasets, and the  *)
(* tensors of one forward pass through the mixture.                        *)
(*                                                                         *)
(* Real numbers are fixed-point integers: a softmax output is a vector of  *)
(* naturals that sums to Unit, a validation loss is in thousandths, and a  *)
(* weight tensor is abstracted to an integer that every training epoch     *)
(* increments.                                                             *)
(***************************************************************************)
EXTENDS Integers, Sequences, FiniteSets, TLC

VARIABLES
    todo,       \* cells still to execute, in order
    done,       \* cells executed so far, in order
    fs,         \* checkpoint directories: dir -> [exists, files]
    clock,      \* file-system time, stamps the files written
    trainable,  \* layer -> BOOLEAN, for every layer created so far
    weights,    \* layer -> weight value, for every created layer with weights
    layersOf,   \* model -> set of layers (Model.layers), {} before Model(...)
    collected,  \* model -> layers whose weights the compiled model trains
    cb,         \* the callbacks es_cb, cp_cb and the epoch of the running fit
    valLoss,    \* model -> loss of its current weights on its validation data
    score,      \* model -> loss printed by evaluate
    data,       \* the dataset arrays of the notebook
    mix,        \* tensors of one forward pass of the mixture: inputs and outputs
    call        \* one getNewestModel call: arguments, weights before, return

vars == <<todo, done, fs, clock, trainable, weights, layersOf, collected, cb,
          valLoss, score, data, mix, call>>

-----------------------------------------------------------------------------
(* Bounds of the model. *)

\* epochs of every fit call (the notebook's parameter, 1 as shipped)
epochs == 3
\* examples kept from the training set and the test set
train_examples == 2
test_examples == 1
\* examples the dataset offers beyond train_examples / test_examples
Surplus == 1
\* label sequences are progressions (a + i*d) % 10 with step d in 0..MaxStep
MaxStep == 3
\* a tensor holds 1..MaxBatch samples
MaxBatch == 2
\* softmax outputs are rotations by 0..MaxRot of the sample vectors
MaxRot == 1
\* the level-1 gate output for class 0 is g/(2*Half) for g in 0..2*Half
Half == 2
\* entries of a directory listing given to getNewestModel
MaxEntries == 3

-----------------------------------------------------------------------------
(* Program constants. *)

orig_classes == 10
gate0_classes == 2
patience == 2
use_large_experts == FALSE
use_large_gating_mlp == FALSE
use_large_baseline_classifier == FALSE

ArtLabels == {0, 1, 8, 9}
NatLabels == {2, 3, 4, 5, 6, 7}
Labels == 0 .. (orig_classes - 1)

Min(a, b) == IF a < b THEN a ELSE b

-----------------------------------------------------------------------------
(* The Keras graph: layers, their inbound layers, Model.layers. *)

InputLayer == <<"input", 0>>
LambdaLayer == <<"lambda", 0>>

\* simpleVGG(cifarInput, num_classes, name): 12 layers name0..name11,
\* Conv2D at 0, 1, 4, 5 and Dense at 9, 11 carry weights.
simpleVGG(name) ==
    [ layers   |-> {<<name, i>> : i \in 0 .. 11},
      weighted |-> {<<name, i>> : i \in {0, 1, 4, 5, 9, 11}},
      out      |-> <<name, 11>> ]

\* fatVGG(cifarInput, num_classes, name): 17 layers name0..name16,
\* Conv2D at 0, 1, 4, 5, 8, 9, 10 and Dense at 14, 16 carry weights.
fatVGG(name) ==
    [ layers   |-> {<<name, i>> : i \in 0 .. 16},
      weighted |-> {<<name, i>> : i \in {0, 1, 4, 5, 8, 9, 10, 14, 16}},
      out      |-> <<name, 16>> ]

\* subGate(cifarInput, orig_classes, numExperts, name): Flatten, Dense,
\* Dropout, Dense (softmax over orig_classes*numExperts), Reshape.
subGate(name) ==
    [ layers   |-> {<<name, i>> : i \in 0 .. 4},
      weighted |-> {<<name, i>> : i \in {1, 3}},
      out      |-> <<name, 4>> ]

gate0VGG == IF use_large_gating_mlp THEN fatVGG("gate0") ELSE simpleVGG("gate0")
baseVGG == IF use_large_baseline_classifier THEN fatVGG("base") ELSE simpleVGG("base")
artificialVGG == IF use_large_experts THEN fatVGG("artificial") ELSE simpleVGG("artificial")
naturalVGG == IF use_large_experts THEN fatVGG("natural") ELSE simpleVGG("natural")
artGate == subGate("artExpertGate")
natureGate == subGate("natureExpertGate")

SubNets == {gate0VGG, baseVGG, artificialVGG, naturalVGG}
SubGates == {artGate, natureGate}

AllLayers ==
    {InputLayer, LambdaLayer} \cup UNION {n.layers : n \in SubNets \cup SubGates}
Weighted == UNION {n.weighted : n \in SubNets \cup SubGates}

\* Inbound where the natural expert is built on the first convolution of the
\* artificial expert instead of on cifarInput
InboundShared(l) ==
    IF l = InputLayer THEN {}
    ELSE IF l = LambdaLayer
         THEN {baseVGG.out, gate0VGG.out, artificialVGG.out, naturalVGG.out,
               artGate.out, natureGate.out}
    ELSE IF l = <<"natural", 0>> THEN {<<"artificial", 0>>}
    ELSE IF l[2] = 0 THEN {InputLayer}
    ELSE {<<l[1], l[2] - 1>>}

\* The layers whose output tensors a layer is called on.  Every network is a
\* chain that starts at cifarInput; the output Lambda is called on the list
\* [baseVGG, gate0VGG, artificialVGG, naturalVGG, artGate, natureGate].
Inbound(l) ==
    IF l = InputLayer THEN {}
    ELSE IF l = LambdaLayer
         THEN {baseVGG.out, gate0VGG.out, artificialVGG.out, naturalVGG.out,
               artGate.out, natureGate.out}
    ELSE IF l[2] = 0 THEN {InputLayer}
    ELSE {<<l[1], l[2] - 1>>}

RECURSIVE Ancestors(_, _)
Ancestors(frontier, acc) ==
    IF frontier \subseteq acc THEN acc
    ELSE Ancestors(UNION {Inbound(l) : l \in frontier}, acc \cup frontier)

\* Model(cifarInput, out).layers: every layer on a path from the input to out.
ModelLayers(out) == Ancestors({out}, {})

Models == {"base", "gate0", "art", "nat", "moe"}
SubModels == {"base", "gate0", "art", "nat"}

\* the output layer each Model(...) is built on
OutLayer(m) ==
    CASE m = "gate0" -> gate0VGG.out
      [] m = "base"  -> baseVGG.out
      [] m = "art"   -> artificialVGG.out
      [] m = "nat"   -> naturalVGG.out
      [] m = "moe"   -> LambdaLayer

\* fresh weights of a layer, and the weights held by checkpoints of an earlier run
InitW == 0
OldW == InitW - 1

-----------------------------------------------------------------------------
(* Validation losses, in thousandths. *)

\* the validation losses an epoch can report: 1.762 and 1.764 (both "1.76")
LossVals == {1762, 1764}
\* np.Inf, the initial "best" of EarlyStopping and ModelCheckpoint
Inf == 1764 + 1
\* no loss computed yet
NoLoss == 0 - 1

\* monitor_op with np.less_equal in place of np.less
monitor_op_le(current, best) == current <= best

\* monitor='val_loss', mode='auto': monitor_op is np.less
monitor_op(current, best) == current < best

\* '{val_loss:.2f}': two decimals (hundredths), rounding the thousandths
Fmt2(loss) == (loss + 5) \div 10

-----------------------------------------------------------------------------
(* Checkpoint directories and getNewestModel. *)

SaveDir(m) ==
    CASE m = "base"  -> "baseCifar10"
      [] m = "gate0" -> "gate0Cifar10"
      [] m = "art"   -> "artCifar10"
      [] m = "nat"   -> "natureCifar10"
      [] m = "moe"   -> "moe3Cifar10"

Dirs == {SaveDir(m) : m \in Models}

Absent == [exists |-> FALSE, files |-> <<>>]
EmptyDir == [exists |-> TRUE, files |-> <<>>]

\* 'Cifar10_.{epoch:02d}-{val_loss:.2f}.hdf5'; dot: the name begins with '.'
CheckpointName(epoch, val_loss) ==
    [dot |-> FALSE, epoch |-> epoch, loss |-> Fmt2(val_loss)]

\* the weights a model file of model layers L holds
Snapshot(W, L) == [l \in L \cap DOMAIN W |-> W[l]]

\* ModelCheckpoint saving to filepath: a file of that name is overwritten
WriteFile(d, f) ==
    IF \E i \in 1 .. Len(d.files) : d.files[i].name = f.name
    THEN [d EXCEPT !.files = [i \in 1 .. Len(d.files) |->
                                 IF d.files[i].name = f.name THEN f ELSE d.files[i]]]
    ELSE [d EXCEPT !.files = Append(d.files, f)]

\* glob(os.path.join(dirname, '*')): the entries of the directory whose name
\* does not begin with a dot, none when the directory does not exist
Glob(d) ==
    IF d.exists THEN SelectSeq(d.files, LAMBDA f : ~f.name.dot) ELSE <<>>

\* Newest taking the first entry of the sorted list: sorted(...)[0]
NewestOldest(files) ==
    files[CHOOSE i \in 1 .. Len(files) :
            \A j \in 1 .. Len(files) :
                \/ files[j].mtime > files[i].mtime
                \/ files[j].mtime = files[i].mtime /\ j >= i]

\* sorted(files, key=mtime)[-1]: the sort is stable, so among the entries of
\* greatest mtime the one latest in the listing is last
Newest(files) ==
    files[CHOOSE i \in 1 .. Len(files) :
            \A j \in 1 .. Len(files) :
                \/ files[j].mtime < files[i].mtime
                \/ files[j].mtime = files[i].mtime /\ j <= i]

\* model.load_weights(file)
LoadWeights(W, f) ==
    [l \in DOMAIN W |-> IF l \in DOMAIN f.w THEN f.w[l] ELSE W[l]]

\* getNewestModel(model, dirname): the model returned, its weights and the
\* validation loss of these weights
getNewestModel(m, d, W, v) ==
    LET files == Glob(d) IN
    IF Len(files) = 0
    THEN [model |-> m, weights |-> W, val |-> v]
    ELSE [model |-> m, weights |-> LoadWeights(W, Newest(files)),
          val |-> Newest(files).val]

-----------------------------------------------------------------------------
(* Dataset arrays.  An image is its position in the set load_data returns;
   index lists are 0-based as in the notebook. *)

Slice(x, n) == SubSeq(x, 1, Min(n, Len(x)))

\* keras.utils.to_categorical(y, n)
ToCategorical(y, n) ==
    [i \in 1 .. Len(y) |-> [c \in 0 .. (n - 1) |-> IF c = y[i] THEN 1 ELSE 0]]

\* GateLabel with the two classes exchanged
GateLabelSwapped(y) == [i \in 1 .. Len(y) |-> IF y[i] \in ArtLabels THEN 1 ELSE 0]

\* [0 if i in [0,1,8,9] else 1 for i in y]
GateLabel(y) == [i \in 1 .. Len(y) |-> IF y[i] \in ArtLabels THEN 0 ELSE 1]

\* [i for i in range(len(y)) if y[i] in S]
Positions(y, S) ==
    SelectSeq([i \in 1 .. Len(y) |-> i - 1], LAMBDA i : y[i + 1] \in S)

\* x[idx] for an index list idx
Take(x, idx) == [k \in 1 .. Len(idx) |-> x[idx[k] + 1]]

NoData ==
    [ raw |-> <<>>,
      x_train |-> <<>>, y_train |-> <<>>, x_test |-> <<>>, y_test |-> <<>>,
      y_train0 |-> <<>>, y_test0 |-> <<>>, y_trainG0 |-> <<>>, y_testG0 |-> <<>>,
      artTrain |-> <<>>, natureTrain |-> <<>>, artTest |-> <<>>, natureTest |-> <<>>,
      x_trainArt |-> <<>>, x_testArt |-> <<>>, y_trainArt |-> <<>>, y_testArt |-> <<>>,
      x_trainNat |-> <<>>, x_testNat |-> <<>>, y_trainNat |-> <<>>, y_testNat |-> <<>> ]

\* the arguments of each fit call: x, y, validation_data
FitArgs(m) ==
    CASE m = "base"  -> [x |-> data.x_train, y |-> data.y_train0,
                         vx |-> data.x_test, vy |-> data.y_test0]
      [] m = "gate0" -> [x |-> data.x_train, y |-> data.y_trainG0,
                         vx |-> data.x_test, vy |-> data.y_testG0]
      [] m = "art"   -> [x |-> data.x_trainArt, y |-> data.y_trainArt,
                         vx |-> data.x_testArt, vy |-> data.y_testArt]
      [] m = "nat"   -> [x |-> data.x_trainNat, y |-> data.y_trainNat,
                         vx |-> data.x_testNat, vy |-> data.y_testNat]
      [] m = "moe"   -> [x |-> data.x_train, y |-> data.y_train0,
                         vx |-> data.x_test, vy |-> data.y_test0]

-----------------------------------------------------------------------------
(* The forward pass of the mixture.  A tensor is a sequence over the samples
   of the batch; a class vector is a function on 0 .. orig_classes-1. *)

Unit == 6 * orig_classes
Classes == 0 .. (orig_classes - 1)

\* Reshape((orig_classes, numExperts)) of the flat softmax output; row-major
Reshape(v, numExperts) ==
    [c \in Classes |-> [e \in 0 .. (numExperts - 1) |-> v[c * numExperts + e]]]

\* subGateLambda with the two gate columns exchanged
subGateLambdaSwapped(base, expert, subgate) ==
    [s \in 1 .. Len(base) |->
        [c \in Classes |-> (base[s][c] * subgate[s][c][1])
                           + (expert[s][c] * subgate[s][c][0])]]

\* subGateLambda(base, expert, subgate):
\* (gx[0]*gx[2][:,:,0]) + (gx[1]*gx[2][:,:,1])
subGateLambda(base, expert, subgate) ==
    [s \in 1 .. Len(base) |->
        [c \in Classes |-> (base[s][c] * subgate[s][c][0])
                           + (expert[s][c] * subgate[s][c][1])]]

\* K.switch(condition, then, else) with a condition per sample: tf.where
\* selects rows of then where the condition is true, rows of else elsewhere
K_switch(condition, then_expression, else_expression) ==
    [s \in 1 .. Len(condition) |->
        IF condition[s] THEN then_expression[s] ELSE else_expression[s]]

\* GateCondition with >= in place of >
GateConditionGe(gate) == [s \in 1 .. Len(gate) |-> gate[s][0] >= gate[s][1]]

\* gx[1][:,0] > gx[1][:,1]
GateCondition(gate) == [s \in 1 .. Len(gate) |-> gate[s][0] > gate[s][1]]

\* the output Lambda on [baseVGG, gate0VGG, artificialVGG, naturalVGG,
\* artGate, natureGate]
output(gx) ==
    K_switch(GateCondition(gx[1]),
             subGateLambda(gx[0], gx[2], gx[4]),
             subGateLambda(gx[0], gx[3], gx[5]))

-----------------------------------------------------------------------------
(* The cells of the notebook, top to bottom.  Cells that only import, print
   or rescale pixel values change nothing the model keeps and are left out. *)

Cell(op, m) == [op |-> op, m |-> m]

\* compile; checkpoint directory, callbacks and getNewestModel; fit; evaluate
Stage(m) ==
    <<Cell("compile", m), Cell("setup", m), Cell("fit", m), Cell("evaluate", m)>>

\* the notebook with the freeze cell ahead of the natural expert's training
NotebookFreezeEarly ==
    <<Cell("rmtree", "-"), Cell("load_data", "-"), Cell("to_categorical", "-"),
      Cell("input", "-"), Cell("models", "-")>>
    \o Stage("base")
    \o <<Cell("gate_targets", "-")>>
    \o Stage("gate0")
    \o <<Cell("positions", "-"), Cell("art_subset", "-"), Cell("art_categorical", "-")>>
    \o Stage("art")
    \o <<Cell("nat_subset", "-"), Cell("nat_categorical", "-"), Cell("freeze", "-")>>
    \o Stage("nat")
    \o <<Cell("subgates", "-"), Cell("output", "-"),
         Cell("mixture", "-"), Cell("compile", "moe"), Cell("setup", "moe"),
         Cell("fit", "moe"), Cell("evaluate_mixture", "moe")>>

Notebook ==
    <<Cell("rmtree", "-"), Cell("load_data", "-"), Cell("to_categorical", "-"),
      Cell("input", "-"), Cell("models", "-")>>
    \o Stage("base")
    \o <<Cell("gate_targets", "-")>>
    \o Stage("gate0")
    \o <<Cell("positions", "-"), Cell("art_subset", "-"), Cell("art_categorical", "-")>>
    \o Stage("art")
    \o <<Cell("nat_subset", "-"), Cell("nat_categorical", "-")>>
    \o Stage("nat")
    \o <<Cell("freeze", "-"), Cell("subgates", "-"), Cell("output", "-"),
         Cell("mixture", "-"), Cell("compile", "moe"), Cell("setup", "moe"),
         Cell("fit", "moe"), Cell("evaluate_mixture", "moe")>>

DataOps ==
    {"load_data", "to_categorical", "gate_targets", "positions", "art_subset",
     "art_categorical", "nat_subset", "nat_categorical"}

\* the dataset cells of the notebook, in its order
DataCells == SelectSeq(Notebook, LAMBDA c : c.op \in DataOps)

At(op, m) == todo # <<>> /\ Head(todo) = Cell(op, m)
Ran(op, m) == \E i \in 1 .. Len(done) : done[i] = Cell(op, m)

\* the cell at the head of todo has run
Advance ==
    /\ todo' = Tail(todo)
    /\ done' = Append(done, Head(todo))

-----------------------------------------------------------------------------
(* Initial states. *)

\* es_cb and cp_cb as constructed, and the History callback fit adds:
\* history is history.history['val_loss'], one entry per epoch
NoCallbacks ==
    [esBest |-> Inf, wait |-> 0, cpBest |-> Inf, dir |-> "-", epoch |-> 0,
     stop |-> FALSE, history |-> <<>>]
NoMix == [in |-> <<>>, gx |-> <<>>, art |-> <<>>, nat |-> <<>>, out |-> <<>>]
NoCall == [m |-> "-", dir |-> "-", pre |-> <<>>, ret |-> "-"]

\* a checkpoint left in its directory by an earlier run of the notebook
OldFile(m) ==
    [name |-> CheckpointName(1, 1764), mtime |-> 0,
     w |-> [l \in ModelLayers(OutLayer(m)) \cap Weighted |-> OldW], val |-> 1764]

\* what an earlier run can have left of the directory of model m
OldDirs(m) == {Absent, EmptyDir, [exists |-> TRUE, files |-> <<OldFile(m)>>]}

\* label sequences of length n: (a + i*d) % orig_classes
Progressions(n) ==
    {[i \in 1 .. n |-> (a + (i - 1) * d) % orig_classes] :
        a \in Labels, d \in 0 .. MaxStep}

\* what cifar10.load_data() returns: images (their positions) and labels
RawData(yTrain, yTest) ==
    [x_train |-> [i \in 1 .. Len(yTrain) |-> i], y_train |-> yTrain,
     x_test |-> [i \in 1 .. Len(yTest) |-> i], y_test |-> yTest]

\* the first labels of the CIFAR-10 training and test sets
CifarHead == RawData(<<6, 9, 9, 4, 1, 1, 2, 7, 8, 3>>, <<3, 8, 8, 0, 6, 6, 1, 6, 3, 1>>)

\* the graph once every cell that builds it has run
BuiltTrainable ==
    [l \in AllLayers |-> l \in UNION {n.layers : n \in SubGates} \cup {LambdaLayer}]
BuiltWeights == [l \in Weighted |-> InitW]
BuiltLayersOf == [m \in Models |-> ModelLayers(OutLayer(m))]

\* a top-to-bottom run of the notebook in a directory an earlier run used
Init ==
    /\ todo = Notebook
    /\ done = <<>>
    /\ fs \in {f \in [Dirs -> UNION {OldDirs(m) : m \in Models}] :
                 \A m \in Models : f[SaveDir(m)] \in OldDirs(m)}
    /\ clock = 1
    /\ trainable = <<>>
    /\ weights = <<>>
    /\ layersOf = [m \in Models |-> {}]
    /\ collected = [m \in Models |-> {}]
    /\ cb = NoCallbacks
    /\ valLoss = [m \in Models |-> NoLoss]
    /\ score = [m \in Models |-> NoLoss]
    /\ data = [NoData EXCEPT !.raw = CifarHead]
    /\ mix = NoMix
    /\ call = NoCall

-----------------------------------------------------------------------------
(* The cells. *)

\* Removed without the directory of the mixture
RemovedFour == {"gate0Cifar10", "natureCifar10", "baseCifar10", "artCifar10"}

\* the five shutil.rmtree calls
Removed ==
    {"gate0Cifar10", "moe3Cifar10", "natureCifar10", "baseCifar10", "artCifar10"}

\* delete previous model checkpoints (and define getNewestModel)
RmTree ==
    /\ At("rmtree", "-")
    /\ fs' = [d \in DOMAIN fs |-> IF d \in Removed THEN Absent ELSE fs[d]]
    /\ Advance
    /\ UNCHANGED <<clock, trainable, weights, layersOf, collected, cb, valLoss,
                   score, data, mix, call>>

\* LoadData with the labels of the training set cut at test_examples
LoadDataCrossed ==
    /\ At("load_data", "-")
    /\ data' = [data EXCEPT !.x_train = Slice(data.raw.x_train, train_examples),
                            !.x_test = Slice(data.raw.x_test, test_examples),
                            !.y_train = Slice(data.raw.y_train, test_examples),
                            !.y_test = Slice(data.raw.y_test, test_examples)]
    /\ Advance
    /\ UNCHANGED <<fs, clock, trainable, weights, layersOf, collected, cb,
                   valLoss, score, mix, call>>

\* cifar10.load_data() and the slices [:train_examples], [:test_examples]
LoadData ==
    /\ At("load_data", "-")
    /\ data' = [data EXCEPT !.x_train = Slice(data.raw.x_train, train_examples),
                            !.x_test = Slice(data.raw.x_test, test_examples),
                            !.y_train = Slice(data.raw.y_train, train_examples),
                            !.y_test = Slice(data.raw.y_test, test_examples)]
    /\ Advance
    /\ UNCHANGED <<fs, clock, trainable, weights, layersOf, collected, cb,
                   valLoss, score, mix, call>>

\* y_train0, y_test0
ToCategorical0 ==
    /\ At("to_categorical", "-")
    /\ data' = [data EXCEPT !.y_train0 = ToCategorical(data.y_train, orig_classes),
                            !.y_test0 = ToCategorical(data.y_test, orig_classes)]
    /\ Advance
    /\ UNCHANGED <<fs, clock, trainable, weights, layersOf, collected, cb,
                   valLoss, score, mix, call>>

\* cifarInput = Input(...)
MakeInput ==
    /\ At("input", "-")
    /\ trainable' = trainable @@ [l \in {InputLayer} |-> TRUE]
    /\ Advance
    /\ UNCHANGED <<fs, clock, weights, layersOf, collected, cb, valLoss, score,
                   data, mix, call>>

\* gate0Model, baseModel, artificialModel, naturalModel
BuildSubModels ==
    /\ At("models", "-")
    /\ trainable' = trainable @@ [l \in UNION {n.layers : n \in SubNets} |-> TRUE]
    /\ weights' = weights @@ [l \in UNION {n.weighted : n \in SubNets} |-> InitW]
    /\ layersOf' = [m \in Models |->
                      IF m \in SubModels THEN ModelLayers(OutLayer(m)) ELSE layersOf[m]]
    /\ Advance
    /\ UNCHANGED <<fs, clock, collected, cb, valLoss, score, data, mix, call>>

\* Compile collecting the weights of every layer, trainable or not
CompileAll(m) ==
    /\ At("compile", m)
    /\ collected' = [collected EXCEPT ![m] = layersOf[m] \cap DOMAIN weights]
    /\ Advance
    /\ UNCHANGED <<fs, clock, trainable, weights, layersOf, cb, valLoss, score,
                   data, mix, call>>

\* model.compile(...): the weights to train are collected from the layers
\* that are trainable now
Compile(m) ==
    /\ At("compile", m)
    /\ collected' = [collected EXCEPT ![m] =
                        {l \in layersOf[m] \cap DOMAIN weights : trainable[l]}]
    /\ Advance
    /\ UNCHANGED <<fs, clock, trainable, weights, layersOf, cb, valLoss, score,
                   data, mix, call>>

\* os.makedirs unless the directory exists; fresh es_cb and cp_cb;
\* model = getNewestModel(model, saveDir)
Setup(m) ==
    /\ At("setup", m)
    /\ LET dir == SaveDir(m)
           d1 == IF fs[dir].exists THEN fs[dir] ELSE EmptyDir
           r == getNewestModel(m, d1, weights, valLoss[m])
       IN /\ fs' = [fs EXCEPT ![dir] = d1]
          /\ cb' = [NoCallbacks EXCEPT !.dir = dir]
          /\ weights' = r.weights
          /\ valLoss' = [valLoss EXCEPT ![m] = r.val]
          /\ call' = [m |-> m, dir |-> dir, pre |-> weights, ret |-> r.model]
    /\ Advance
    /\ UNCHANGED <<clock, trainable, layersOf, collected, score, data, mix>>

\* one epoch of model.fit(..., callbacks=[es_cb, cp_cb]): the collected
\* weights are updated, val_loss is computed, EarlyStopping counts the epochs
\* without improvement, ModelCheckpoint(save_best_only=True) saves the model
\* when val_loss is below its best
FitEpoch(m) ==
    /\ At("fit", m)
    /\ cb.epoch < epochs
    /\ ~cb.stop
    /\ \E loss \in LossVals :
         LET e == cb.epoch + 1
             W == [l \in DOMAIN weights |->
                     IF l \in collected[m] THEN weights[l] + 1 ELSE weights[l]]
             improved == monitor_op(loss, cb.esBest)
             wait == IF improved THEN 0 ELSE cb.wait + 1
             save == monitor_op(loss, cb.cpBest)
             f == [name |-> CheckpointName(e, loss), mtime |-> clock,
                   w |-> Snapshot(W, layersOf[m]), val |-> loss]
         IN /\ weights' = W
            /\ valLoss' = [valLoss EXCEPT ![m] = loss]
            /\ cb' = [cb EXCEPT !.epoch = e,
                                !.esBest = IF improved THEN loss ELSE @,
                                !.wait = wait,
                                !.stop = (wait >= patience),
                                !.cpBest = IF save THEN loss ELSE @,
                                !.history = Append(@, loss)]
            /\ fs' = IF save THEN [fs EXCEPT ![cb.dir] = WriteFile(@, f)] ELSE fs
    /\ clock' = clock + 1
    /\ UNCHANGED <<todo, done, trainable, layersOf, collected, score, data, mix,
                   call>>

\* fit returns after the last epoch or when EarlyStopping stopped the training
FitReturn(m) ==
    /\ At("fit", m)
    /\ cb.epoch >= epochs \/ cb.stop
    /\ Advance
    /\ UNCHANGED <<fs, clock, trainable, weights, layersOf, collected, cb,
                   valLoss, score, data, mix, call>>

\* LoadAndEvaluate without the getNewestModel call: evaluate on the weights
\* the last epoch left
EvaluateLast(m) ==
    /\ At("evaluate", m)
    /\ call' = [m |-> m, dir |-> SaveDir(m), pre |-> weights, ret |-> m]
    /\ \E v \in LossVals :
         LET ev == IF valLoss[m] = NoLoss THEN v ELSE valLoss[m]
         IN /\ valLoss' = [valLoss EXCEPT ![m] = ev]
            /\ score' = [score EXCEPT ![m] = ev]
    /\ Advance
    /\ UNCHANGED <<fs, clock, trainable, weights, layersOf, collected, cb, data,
                   mix>>

\* model = getNewestModel(model, saveDir); score = model.evaluate(...)
LoadAndEvaluate(m) ==
    /\ At("evaluate", m)
    /\ LET r == getNewestModel(m, fs[SaveDir(m)], weights, valLoss[m])
       IN /\ weights' = r.weights
          /\ call' = [m |-> m, dir |-> SaveDir(m), pre |-> weights, ret |-> r.model]
          /\ \E v \in LossVals :
               LET ev == IF r.val = NoLoss THEN v ELSE r.val
               IN /\ valLoss' = [valLoss EXCEPT ![m] = ev]
                  /\ score' = [score EXCEPT ![m] = ev]
    /\ Advance
    /\ UNCHANGED <<fs, clock, trainable, layersOf, collected, cb, data, mix>>

\* y_trainG0, y_testG0
GateTargets ==
    /\ At("gate_targets", "-")
    /\ data' = [data EXCEPT
                  !.y_trainG0 = ToCategorical(GateLabel(data.y_train), gate0_classes),
                  !.y_testG0 = ToCategorical(GateLabel(data.y_test), gate0_classes)]
    /\ Advance
    /\ UNCHANGED <<fs, clock, trainable, weights, layersOf, collected, cb,
                   valLoss, score, mix, call>>

\* PositionsCell with 7 for 8 in the artificial labels of the training set
PositionsCellTypo ==
    /\ At("positions", "-")
    /\ data' = [data EXCEPT !.artTrain = Positions(data.y_train, {0, 1, 7, 9}),
                            !.natureTrain = Positions(data.y_train, {2, 3, 4, 5, 6, 7}),
                            !.artTest = Positions(data.y_test, {0, 1, 8, 9}),
                            !.natureTest = Positions(data.y_test, {2, 3, 4, 5, 6, 7})]
    /\ Advance
    /\ UNCHANGED <<fs, clock, trainable, weights, layersOf, collected, cb,
                   valLoss, score, mix, call>>

\* artTrain, natureTrain, artTest, natureTest
PositionsCell ==
    /\ At("positions", "-")
    /\ data' = [data EXCEPT !.artTrain = Positions(data.y_train, {0, 1, 8, 9}),
                            !.natureTrain = Positions(data.y_train, {2, 3, 4, 5, 6, 7}),
                            !.artTest = Positions(data.y_test, {0, 1, 8, 9}),
                            !.natureTest = Positions(data.y_test, {2, 3, 4, 5, 6, 7})]
    /\ Advance
    /\ UNCHANGED <<fs, clock, trainable, weights, layersOf, collected, cb,
                   valLoss, score, mix, call>>

\* x_trainArt, x_testArt, y_trainArt, y_testArt
ArtSubset ==
    /\ At("art_subset", "-")
    /\ data' = [data EXCEPT !.x_trainArt = Take(data.x_train, data.artTrain),
                            !.x_testArt = Take(data.x_test, data.artTest),
                            !.y_trainArt = Take(data.y_train, data.artTrain),
                            !.y_testArt = Take(data.y_test, data.artTest)]
    /\ Advance
    /\ UNCHANGED <<fs, clock, trainable, weights, layersOf, collected, cb,
                   valLoss, score, mix, call>>

ArtCategorical ==
    /\ At("art_categorical", "-")
    /\ data' = [data EXCEPT !.y_trainArt = ToCategorical(data.y_trainArt, orig_classes),
                            !.y_testArt = ToCategorical(data.y_testArt, orig_classes)]
    /\ Advance
    /\ UNCHANGED <<fs, clock, trainable, weights, layersOf, collected, cb,
                   valLoss, score, mix, call>>

\* x_trainNat, x_testNat, y_trainNat, y_testNat
NatSubset ==
    /\ At("nat_subset", "-")
    /\ data' = [data EXCEPT !.x_trainNat = Take(data.x_train, data.natureTrain),
                            !.x_testNat = Take(data.x_test, data.natureTest),
                            !.y_trainNat = Take(data.y_train, data.natureTrain),
                            !.y_testNat = Take(data.y_test, data.natureTest)]
    /\ Advance
    /\ UNCHANGED <<fs, clock, trainable, weights, layersOf, collected, cb,
                   valLoss, score, mix, call>>

NatCategorical ==
    /\ At("nat_categorical", "-")
    /\ data' = [data EXCEPT !.y_trainNat = ToCategorical(data.y_trainNat, orig_classes),
                            !.y_testNat = ToCategorical(data.y_testNat, orig_classes)]
    /\ Advance
    /\ UNCHANGED <<fs, clock, trainable, weights, layersOf, collected, cb,
                   valLoss, score, mix, call>>

\* FrozenModels without the loop over naturalModel.layers
FrozenModelsThree == {"base", "gate0", "art"}

\* the models whose layers the freeze cell loops over
FrozenModels == {"base", "gate0", "art", "nat"}

\* for l in <model>.layers: l.trainable = False
Freeze ==
    /\ At("freeze", "-")
    /\ trainable' = [l \in DOMAIN trainable |->
                        IF l \in UNION {layersOf[m] : m \in FrozenModels}
                        THEN FALSE ELSE trainable[l]]
    /\ Advance
    /\ UNCHANGED <<fs, clock, weights, layersOf, collected, cb, valLoss, score,
                   data, mix, call>>

\* artGate, natureGate
BuildSubGates ==
    /\ At("subgates", "-")
    /\ trainable' = trainable @@ [l \in UNION {n.layers : n \in SubGates} |-> TRUE]
    /\ weights' = weights @@ [l \in UNION {n.weighted : n \in SubGates} |-> InitW]
    /\ Advance
    /\ UNCHANGED <<fs, clock, layersOf, collected, cb, valLoss, score, data, mix,
                   call>>

\* output = Lambda(...)([baseVGG, gate0VGG, artificialVGG, naturalVGG, artGate,
\* natureGate])
BuildOutput ==
    /\ At("output", "-")
    /\ trainable' = trainable @@ [l \in {LambdaLayer} |-> TRUE]
    /\ Advance
    /\ UNCHANGED <<fs, clock, weights, layersOf, collected, cb, valLoss, score,
                   data, mix, call>>

\* model = Model(cifarInput, output)
BuildMixture ==
    /\ At("mixture", "-")
    /\ layersOf' = [layersOf EXCEPT !["moe"] = ModelLayers(OutLayer("moe"))]
    /\ Advance
    /\ UNCHANGED <<fs, clock, trainable, weights, collected, cb, valLoss, score,
                   data, mix, call>>

\* mixture_loss_accuracy = model.evaluate(x_test, y_test0)
EvaluateMixture ==
    /\ At("evaluate_mixture", "moe")
    /\ \E v \in LossVals :
         LET ev == IF valLoss["moe"] = NoLoss THEN v ELSE valLoss["moe"]
         IN /\ valLoss' = [valLoss EXCEPT !["moe"] = ev]
            /\ score' = [score EXCEPT !["moe"] = ev]
    /\ Advance
    /\ UNCHANGED <<fs, clock, trainable, weights, layersOf, collected, cb, data,
                   mix, call>>

Next ==
    \/ RmTree
    \/ LoadData
    \/ ToCategorical0
    \/ MakeInput
    \/ BuildSubModels
    \/ \E m \in Models : Compile(m)
    \/ \E m \in Models : Setup(m)
    \/ \E m \in Models : FitEpoch(m)
    \/ \E m \in Models : FitReturn(m)
    \/ \E m \in SubModels : LoadAndEvaluate(m)
    \/ GateTargets
    \/ PositionsCell
    \/ ArtSubset
    \/ ArtCategorical
    \/ NatSubset
    \/ NatCategorical
    \/ Freeze
    \/ BuildSubGates
    \/ BuildOutput
    \/ BuildMixture
    \/ EvaluateMixture

Spec == Init /\ [][Next]_vars

-----------------------------------------------------------------------------
(* The dataset cells on any dataset. *)

InitData ==
    /\ todo = DataCells
    /\ done = <<>>
    /\ fs = [d \in Dirs |-> Absent]
    /\ clock = 1
    /\ trainable = <<>>
    /\ weights = <<>>
    /\ layersOf = [m \in Models |-> {}]
    /\ collected = [m \in Models |-> {}]
    /\ cb = NoCallbacks
    /\ valLoss = [m \in Models |-> NoLoss]
    /\ score = [m \in Models |-> NoLoss]
    /\ \E nTrain \in 0 .. (train_examples + Surplus),
          nTest \in 0 .. (test_examples + Surplus) :
         \E yTrain \in Progressions(nTrain), yTest \in Progressions(nTest) :
            data = [NoData EXCEPT !.raw = RawData(yTrain, yTest)]
    /\ mix = NoMix
    /\ call = NoCall

NextData ==
    \/ LoadData
    \/ ToCategorical0
    \/ GateTargets
    \/ PositionsCell
    \/ ArtSubset
    \/ ArtCategorical
    \/ NatSubset
    \/ NatCategorical

SpecData == InitData /\ [][NextData]_vars

-----------------------------------------------------------------------------
(* One forward pass of the mixture on any batch of sub-network outputs. *)

\* v rotated by r places
Rot(v, r) == [c \in DOMAIN v |-> v[(c + r) % Cardinality(DOMAIN v)]]

\* softmax outputs (each sums to Unit) of the baseline, the two experts and
\* the Dense layers of the two second-level gates
BaseVec == [c \in Classes |-> c + 1 + (IF c = 0 THEN 5 ELSE 0)]
ArtVec == [c \in Classes |-> CASE c = 0 -> 21 [] c = 1 -> 15 [] c = 8 -> 13
                                [] c = 9 -> 11 [] OTHER -> 0]
NatVec == [c \in Classes |-> IF c \in NatLabels THEN 2 * c + 1 ELSE 0]
\* ArtDense with a sigmoid in place of the softmax, every unit saturated
ArtDenseSigmoid == [k \in 0 .. (2 * orig_classes - 1) |-> Unit]
ArtDense == [k \in 0 .. (2 * orig_classes - 1) |-> (k % 5) + 1]
NatDense == [k \in 0 .. (2 * orig_classes - 1) |-> 5 - (k % 5)]

\* the outputs of the six networks for one input image
Sample(g, r) ==
    [base |-> Rot(BaseVec, r),
     gate0 |-> [c \in 0 .. (gate0_classes - 1) |->
                  IF c = 0 THEN g * (Unit \div (2 * Half))
                  ELSE Unit - g * (Unit \div (2 * Half))],
     artificial |-> Rot(ArtVec, r),
     natural |-> Rot(NatVec, r),
     artDense |-> Rot(ArtDense, r),
     natDense |-> Rot(NatDense, r)]

\* saturated softmax outputs: every network puts all its mass on class c,
\* the second-level gates on the baseline's weight (artGate) and on the
\* expert's weight (natureGate) for that class
Saturated(g, c) ==
    [base |-> [k \in Classes |-> IF k = c THEN Unit ELSE 0],
     gate0 |-> Sample(g, 0).gate0,
     artificial |-> [k \in Classes |-> IF k = c THEN Unit ELSE 0],
     natural |-> [k \in Classes |-> IF k = c THEN Unit ELSE 0],
     artDense |-> [k \in 0 .. (2 * orig_classes - 1) |->
                     IF k = 2 * c THEN Unit ELSE 0],
     natDense |-> [k \in 0 .. (2 * orig_classes - 1) |->
                     IF k = 2 * c + 1 THEN Unit ELSE 0]]

Samples ==
    {Sample(g, r) : g \in 0 .. (2 * Half), r \in 0 .. MaxRot}
    \cup {Saturated(g, c) : g \in 0 .. (2 * Half), c \in 0 .. MaxRot}

\* the six tensors of a batch of samples
Batch(b) ==
    [base |-> [s \in 1 .. Len(b) |-> b[s].base],
     gate0 |-> [s \in 1 .. Len(b) |-> b[s].gate0],
     artificial |-> [s \in 1 .. Len(b) |-> b[s].artificial],
     natural |-> [s \in 1 .. Len(b) |-> b[s].natural],
     artDense |-> [s \in 1 .. Len(b) |-> b[s].artDense],
     natDense |-> [s \in 1 .. Len(b) |-> b[s].natDense]]

\* the list the output Lambda is called on: [baseVGG, gate0VGG, artificialVGG,
\* naturalVGG, artGate, natureGate], the gates after their Reshape layer
Gx(in) ==
    [k \in 0 .. 5 |->
        CASE k = 0 -> in.base
          [] k = 1 -> in.gate0
          [] k = 2 -> in.artificial
          [] k = 3 -> in.natural
          [] k = 4 -> [s \in 1 .. Len(in.artDense) |-> Reshape(in.artDense[s], 2)]
          [] k = 5 -> [s \in 1 .. Len(in.natDense) |-> Reshape(in.natDense[s], 2)]]

InitMoE ==
    /\ todo = <<Cell("predict", "moe")>>
    /\ done = <<>>
    /\ fs = [d \in Dirs |-> Absent]
    /\ clock = 1
    /\ trainable = BuiltTrainable
    /\ weights = BuiltWeights
    /\ layersOf = BuiltLayersOf
    /\ collected = [m \in Models |-> {}]
    /\ cb = NoCallbacks
    /\ valLoss = [m \in Models |-> NoLoss]
    /\ score = [m \in Models |-> NoLoss]
    /\ data = NoData
    /\ \E n \in 1 .. MaxBatch : \E b \in [1 .. n -> Samples] :
         mix = [NoMix EXCEPT !.in = Batch(b)]
    /\ call = NoCall

\* the mixture applied to a batch: both branches are computed for the whole
\* batch and the output Lambda selects between them
Predict ==
    /\ At("predict", "moe")
    /\ LET gx == Gx(mix.in)
       IN mix' = [in |-> mix.in, gx |-> gx,
                  art |-> subGateLambda(gx[0], gx[2], gx[4]),
                  nat |-> subGateLambda(gx[0], gx[3], gx[5]),
                  out |-> output(gx)]
    /\ Advance
    /\ UNCHANGED <<fs, clock, trainable, weights, layersOf, collected, cb,
                   valLoss, score, data, call>>

NextMoE == Predict

SpecMoE == InitMoE /\ [][NextMoE]_vars

-----------------------------------------------------------------------------
(* One call of getNewestModel on any directory. *)

\* entry i of a listing: hidden or not, its mtime, the weights it holds
Entry(m, i, dot, mtime) ==
    [name |-> [dot |-> dot, epoch |-> i, loss |-> Fmt2(1764)], mtime |-> mtime,
     w |-> [l \in ModelLayers(OutLayer(m)) \cap Weighted |-> OldW - i],
     val |-> 1764]

Listings(m) ==
    UNION {{[i \in 1 .. n |-> Entry(m, i, dots[i], times[i])] :
               dots \in [1 .. n -> BOOLEAN], times \in [1 .. n -> 1 .. MaxEntries]} :
           n \in 0 .. MaxEntries}

InitNewest ==
    /\ \E m \in Models :
         /\ todo = <<Cell("getNewestModel", m)>>
         /\ \E d \in {Absent} \cup {[exists |-> TRUE, files |-> l] : l \in Listings(m)} :
              fs = [x \in Dirs |-> IF x = SaveDir(m) THEN d ELSE Absent]
    /\ done = <<>>
    /\ clock = MaxEntries + 1
    /\ trainable = BuiltTrainable
    /\ weights = BuiltWeights
    /\ layersOf = BuiltLayersOf
    /\ collected = [m \in Models |-> {}]
    /\ cb = NoCallbacks
    /\ valLoss = [m \in Models |-> NoLoss]
    /\ score = [m \in Models |-> NoLoss]
    /\ data = NoData
    /\ mix = NoMix
    /\ call = NoCall

\* model = getNewestModel(model, dirname)
GetNewestCall(m) ==
    /\ At("getNewestModel", m)
    /\ LET r == getNewestModel(m, fs[SaveDir(m)], weights, valLoss[m])
       IN /\ weights' = r.weights
          /\ valLoss' = [valLoss EXCEPT ![m] = r.val]
          /\ call' = [m |-> m, dir |-> SaveDir(m), pre |-> weights, ret |-> r.model]
    /\ Advance
    /\ UNCHANGED <<fs, clock, trainable, layersOf, collected, cb, score, data, mix>>

NextNewest == \E m \in Models : GetNewestCall(m)

SpecNewest == InitNewest /\ [][NextNewest]_vars

-----------------------------------------------------------------------------
(* Properties of the forward pass (SpecMoE). *)

\* the blend of a baseline vector b and an expert vector e under the flat
\* gate output: class c takes entries 2c (baseline) and 2c+1 (expert)
BlendOf(b, e, flat) ==
    [c \in 0 .. 9 |-> b[c] * flat[2 * c] + e[c] * flat[2 * c + 1]]

ArtBlendOf(s) ==
    BlendOf(mix.in.base[s], mix.in.artificial[s], mix.in.artDense[s])
NatBlendOf(s) ==
    BlendOf(mix.in.base[s], mix.in.natural[s], mix.in.natDense[s])

\* C1: hard routing at level 1.  For every sample of the batch the mixture
\* output is the artificial-branch blend when the level-1 gate output for
\* class 0 is strictly greater than its output for class 1, and the
\* natural-branch blend otherwise, a tie included.
C1_HardRouting ==
    Ran("predict", "moe") =>
        /\ Len(mix.out) = Len(mix.in.gate0)
        /\ \A s \in 1 .. Len(mix.out) :
             mix.out[s] = IF mix.in.gate0[s][0] > mix.in.gate0[s][1]
                          THEN ArtBlendOf(s) ELSE NatBlendOf(s)

\* a batch with a tie routed to the natural branch and a sample routed to the
\* artificial branch, the two blends being different
C1_Witness ==
    /\ Ran("predict", "moe")
    /\ \E s, t \in 1 .. Len(mix.out) :
         /\ mix.in.gate0[s][0] = mix.in.gate0[s][1]
         /\ mix.out[s] = NatBlendOf(s)
         /\ mix.out[s] # ArtBlendOf(s)
         /\ mix.in.gate0[t][0] > mix.in.gate0[t][1]
         /\ mix.out[t] = ArtBlendOf(t)
         /\ mix.out[t] # NatBlendOf(t)

\* C2: soft blending at level 2.  The gate tensor of a branch is its flat
\* softmax output reshaped to (10, 2), w[c][e] = flat[2c + e], and for every
\* sample and class c the blend of the branch is
\* base[c] * w[c][0] + expert[c] * w[c][1].
C2_SoftBlending ==
    Ran("predict", "moe") =>
        \A s \in 1 .. Len(mix.in.base) : \A c \in 0 .. 9 :
            /\ \A e \in 0 .. 1 :
                 /\ mix.gx[4][s][c][e] = mix.in.artDense[s][2 * c + e]
                 /\ mix.gx[5][s][c][e] = mix.in.natDense[s][2 * c + e]
            /\ mix.art[s][c] = mix.in.base[s][c] * mix.gx[4][s][c][0]
                               + mix.in.artificial[s][c] * mix.gx[4][s][c][1]
            /\ mix.nat[s][c] = mix.in.base[s][c] * mix.gx[5][s][c][0]
                               + mix.in.natural[s][c] * mix.gx[5][s][c][1]

\* a class where baseline and expert differ, both are weighted with different
\* non-zero weights, in both branches
C2_Witness ==
    /\ Ran("predict", "moe")
    /\ \E s \in 1 .. Len(mix.in.base) : \E c, k \in 0 .. 9 :
         /\ mix.in.base[s][c] # mix.in.artificial[s][c]
         /\ mix.in.artificial[s][c] > 0
         /\ mix.gx[4][s][c][0] # mix.gx[4][s][c][1]
         /\ mix.art[s][c] > mix.in.base[s][c] * mix.gx[4][s][c][0]
         /\ mix.in.base[s][k] # mix.in.natural[s][k]
         /\ mix.in.natural[s][k] > 0
         /\ mix.gx[5][s][k][0] # mix.gx[5][s][k][1]
         /\ mix.nat[s][k] > mix.in.base[s][k] * mix.gx[5][s][k][0]

-----------------------------------------------------------------------------
(* Properties of the top-to-bottom run (Spec). *)

\* the layers of the four sub-models by the names the notebook gives them
SubModelNames == {"base", "gate0", "artificial", "natural"}
NameOf(m) ==
    CASE m = "base" -> "base" [] m = "gate0" -> "gate0"
      [] m = "art" -> "artificial" [] m = "nat" -> "natural"
GateNames == {"artExpertGate", "natureExpertGate"}

Reached(op, m) == At(op, m) \/ Ran(op, m)

\* C3: weight freezing preserves the pretrained features.  From the freeze
\* step on, through every epoch of the mixture's training, no step changes a
\* weight of the baseline, level-1 gate, artificial expert or natural expert.
C3_FrozenWeightsKept ==
    [][Ran("freeze", "-") =>
         \A l \in DOMAIN weights :
            l[1] \in SubModelNames => weights'[l] = weights[l]]_vars

\* the mixture has trained: its gates' weights moved, the sub-models hold
\* trained weights
C3_Witness ==
    /\ At("fit", "moe")
    /\ cb.epoch = epochs
    /\ \A l \in DOMAIN weights :
         /\ l[1] \in GateNames => weights[l] = InitW + epochs
         /\ l[1] \in SubModelNames => weights[l] > InitW

\* C4: once the mixture model is built, so when it is compiled and trained,
\* its trainable layers are exactly the layers of the two second-level gates
\* and the output Lambda; every layer of the four sub-models and the shared
\* input layer belongs to the mixture with trainable = False; compile
\* collects only weights of the second-level gates.
C4_OnlyGatesTrainable ==
    Ran("mixture", "-") =>
        /\ \A l \in layersOf["moe"] :
             trainable[l] <=> l[1] \in GateNames \cup {"lambda"}
        /\ \A m \in SubModels : layersOf[m] \subseteq layersOf["moe"]
        /\ \A l \in layersOf["moe"] :
             l[1] \in SubModelNames \cup {"input"} => ~trainable[l]
        /\ \E l \in layersOf["moe"] : l[1] = "input"
        /\ \A g \in GateNames \cup {"lambda"} : \E l \in layersOf["moe"] : l[1] = g
        /\ Ran("compile", "moe") =>
             /\ collected["moe"] # {}
             /\ \A l \in collected["moe"] : l[1] \in GateNames

\* the compiled mixture during its training
C4_Witness ==
    /\ At("fit", "moe")
    /\ cb.epoch = 1
    /\ trainable[<<"lambda", 0>>]
    /\ trainable[<<"natureExpertGate", 3>>]
    /\ ~trainable[<<"natural", 11>>]
    /\ ~trainable[<<"input", 0>>]
    /\ <<"artExpertGate", 1>> \in collected["moe"]

\* the stages in the order the claim gives them
C5_Order ==
    <<Cell("fit", "base"), Cell("evaluate", "base"),
      Cell("fit", "gate0"), Cell("evaluate", "gate0"),
      Cell("fit", "art"), Cell("evaluate", "art"),
      Cell("fit", "nat"), Cell("evaluate", "nat")>>
C5_MixtureCells ==
    {Cell("freeze", "-"), Cell("subgates", "-"), Cell("output", "-"),
     Cell("mixture", "-"), Cell("compile", "moe"), Cell("setup", "moe"),
     Cell("fit", "moe")}

\* C5: the stages run in a fixed order: the baseline is trained and
\* evaluated, then the level-1 gate, then the artificial expert, then the
\* natural expert; the freeze step and the construction, compilation and
\* training of the mixture are reached only when all four sub-models have
\* been trained and hold the weights of their newest checkpoint.
C5_StageOrder ==
    /\ \A i \in 2 .. Len(C5_Order) :
         Reached(C5_Order[i].op, C5_Order[i].m)
            => Ran(C5_Order[i - 1].op, C5_Order[i - 1].m)
    /\ \A c \in C5_MixtureCells :
         Reached(c.op, c.m) =>
            \A m \in SubModels :
               /\ Ran("fit", m)
               /\ Ran("evaluate", m)
               /\ Len(Glob(fs[SaveDir(m)])) > 0
               /\ \A l \in DOMAIN weights :
                    l[1] = NameOf(m) =>
                       \E i \in 1 .. Len(fs[SaveDir(m)].files) :
                          /\ fs[SaveDir(m)].files[i].w[l] = weights[l]
                          /\ \A j \in 1 .. Len(fs[SaveDir(m)].files) :
                               fs[SaveDir(m)].files[j].mtime
                                  <= fs[SaveDir(m)].files[i].mtime

\* the whole notebook has run
C5_Witness ==
    /\ todo = <<>>
    /\ Ran("fit", "moe")
    /\ \A m \in Models : score[m] \in LossVals

\* C6: the four sub-networks are trained independently.  An epoch of the
\* training of one of them changes no weight of a layer that is not its own,
\* and the four models share no layer but the input layer, which has no
\* weights.
C6_IndependentTraining ==
    [][\A m \in SubModels :
          /\ At("fit", m) =>
               \A l \in DOMAIN weights :
                  l[1] # NameOf(m) => weights'[l] = weights[l]
          /\ \A l \in layersOf[m] : l[1] \in {NameOf(m), "input"}
          /\ \A l \in DOMAIN weights : l[1] # "input"]_vars

\* the natural expert, trained last, has moved its own weights; the other
\* three hold theirs
C6_Witness ==
    /\ At("fit", "nat")
    /\ cb.epoch = epochs
    /\ weights[<<"natural", 0>>] = InitW + epochs
    /\ weights[<<"natural", 11>>] = InitW + epochs
    /\ weights[<<"artificial", 0>>] > InitW
    /\ weights[<<"base", 0>>] > InitW
    /\ weights[<<"gate0", 0>>] > InitW

\* C10: previous checkpoints are deleted before anything is trained.  After
\* the first cell no directory holds a file of an earlier run; a directory
\* is absent until its model's setup cell makes it; each fit call starts on
\* an empty directory, after a getNewestModel that returned the model as it
\* was, with the weights it trains at their fresh initial values.
C10_FreshStart ==
    Ran("rmtree", "-") =>
        \A m \in Models :
           /\ \A i \in 1 .. Len(fs[SaveDir(m)].files) :
                fs[SaveDir(m)].files[i].mtime >= 1
           /\ ~Reached("setup", m) \/ At("setup", m) => ~fs[SaveDir(m)].exists
           /\ At("fit", m) /\ cb.epoch = 0 =>
                /\ fs[SaveDir(m)] = EmptyDir
                /\ call.m = m
                /\ call.pre = weights
                /\ collected[m] # {}
                /\ \A l \in collected[m] : weights[l] = InitW
                /\ \A l \in DOMAIN weights : weights[l] # OldW

\* the mixture about to train, on its empty directory
C10_Witness ==
    /\ At("fit", "moe")
    /\ cb.epoch = 0
    /\ fs["moe3Cifar10"] = EmptyDir
    /\ fs["baseCifar10"].files # <<>>
    /\ weights[<<"artExpertGate", 1>>] = InitW

-----------------------------------------------------------------------------
(* Properties of the dataset cells (SpecData). *)

\* row is the one-hot target of a label in S
OneHotIn(row, S) ==
    \E c \in S : row[c] = 1 /\ \A k \in DOMAIN row : k # c => row[k] = 0

\* every image of x has a label in S in the set it was taken from, and every
\* target of y is the one-hot row of a label in S
AllIn(x, y, rawLabels, S) ==
    /\ \A i \in 1 .. Len(x) : rawLabels[x[i]] \in S
    /\ \A i \in 1 .. Len(y) : OneHotIn(y[i], S)

\* C7: each expert is trained and validated only on its own domain.  Every
\* example that the artificial expert's fit call receives for training or
\* validation has a label in {0, 1, 8, 9}, and every example the natural
\* expert's fit call receives has a label in {2, 3, 4, 5, 6, 7}.
C7_ExpertsOwnDomain ==
    /\ Ran("art_categorical", "-") =>
         /\ AllIn(FitArgs("art").x, FitArgs("art").y, data.raw.y_train, {0, 1, 8, 9})
         /\ AllIn(FitArgs("art").vx, FitArgs("art").vy, data.raw.y_test, {0, 1, 8, 9})
    /\ Ran("nat_categorical", "-") =>
         /\ AllIn(FitArgs("nat").x, FitArgs("nat").y, data.raw.y_train,
                  {2, 3, 4, 5, 6, 7})
         /\ AllIn(FitArgs("nat").vx, FitArgs("nat").vy, data.raw.y_test,
                  {2, 3, 4, 5, 6, 7})

\* a training set with an example of each domain, the artificial one second,
\* and an artificial validation example
C7_Witness ==
    /\ Ran("nat_categorical", "-")
    /\ Len(data.y_train) = 2
    /\ data.y_train[1] \in {2, 3, 4, 5, 6, 7}
    /\ data.y_train[2] = 8
    /\ data.x_trainArt = <<2>>
    /\ data.x_trainNat = <<1>>
    /\ Len(data.y_trainArt) = 1
    /\ Len(data.y_testArt) = 1

\* the mixture on one image whose level-1 gate output is the row t
RoutedOutput(t) ==
    output(Gx(Batch(<<[Sample(0, 0) EXCEPT !.gate0 = t]>>)))[1]
ProbeArt ==
    BlendOf(Sample(0, 0).base, Sample(0, 0).artificial, Sample(0, 0).artDense)
ProbeNat ==
    BlendOf(Sample(0, 0).base, Sample(0, 0).natural, Sample(0, 0).natDense)

\* labels y and their gate targets g agree with the routing
OneEncoding(y, g) ==
    /\ Len(g) = Len(y)
    /\ \A i \in 1 .. Len(y) :
         /\ g[i][0] = (IF y[i] \in {0, 1, 8, 9} THEN 1 ELSE 0)
         /\ g[i][1] = 1 - g[i][0]
         /\ RoutedOutput(g[i]) = (IF y[i] \in {0, 1, 8, 9} THEN ProbeArt ELSE ProbeNat)

\* C8: the level-1 gate uses one class encoding for training and routing.
\* The training (and validation) target of an example is class 0 exactly
\* when its label is in {0, 1, 8, 9} and class 1 otherwise, and a gate output
\* equal to that target routes the sample to the artificial branch for
\* class 0 and to the natural branch for class 1.
C8_OneGateEncoding ==
    Ran("gate_targets", "-") =>
        /\ OneEncoding(data.y_train, data.y_trainG0)
        /\ OneEncoding(data.y_test, data.y_testG0)

\* an artificial and a natural training example with different targets
C8_Witness ==
    /\ Ran("gate_targets", "-")
    /\ ProbeArt # ProbeNat
    /\ Len(data.y_train) = 2
    /\ data.y_train[1] = 9
    /\ data.y_train[2] = 2
    /\ data.y_trainG0[1] # data.y_trainG0[2]
    /\ RoutedOutput(data.y_trainG0[1]) = ProbeArt
    /\ RoutedOutput(data.y_trainG0[2]) = ProbeNat

-----------------------------------------------------------------------------
(* Properties of getNewestModel (SpecNewest). *)

\* the model's weights are those of file f where f holds some, else as before
LoadedFrom(f) ==
    \A l \in DOMAIN weights :
        weights[l] = IF l \in DOMAIN f.w THEN f.w[l] ELSE call.pre[l]

\* after the call: the same model is returned; with no entry among es the
\* weights are as before, else they are those of an entry of greatest mtime
NewestOf(es) ==
    /\ call.ret = call.m
    /\ DOMAIN weights = DOMAIN call.pre
    /\ IF Len(es) = 0
       THEN weights = call.pre
       ELSE \E i \in 1 .. Len(es) :
               /\ \A j \in 1 .. Len(es) : es[j].mtime <= es[i].mtime
               /\ LoadedFrom(es[i])

EntriesOf(d) == IF d.exists THEN d.files ELSE <<>>

-----------------------------------------------------------------------------
(* Properties of the checkpoints of a run (Spec). *)

\* the lowest val_loss of a history, and the first epoch that reached it
MinOf(h) == CHOOSE v \in {h[i] : i \in 1 .. Len(h)} : \A i \in 1 .. Len(h) : v <= h[i]
BestEpoch(h) == CHOOSE k \in 1 .. Len(h) :
                   h[k] = MinOf(h) /\ \A j \in 1 .. (k - 1) : h[j] # MinOf(h)

\* the layers of sub-model m that carry weights
ModelWeighted(m) == ModelLayers(OutLayer(m)) \cap Weighted

\* the file of greatest modification time in the directory of model m
LatestFile(m) ==
    LET files == fs[SaveDir(m)].files
    IN files[CHOOSE i \in 1 .. Len(files) :
                \A j \in 1 .. Len(files) : files[j].mtime <= files[i].mtime]

FilesOf(m) == fs[SaveDir(m)].files

\* an epoch of the fit call of model m ends in this step
EpochEnds(m) == At("fit", m) /\ cb'.epoch = cb.epoch + 1

\* the val_loss of the epoch that ends in this step
EpochLoss == cb'.history[Len(cb'.history)]

\* that val_loss is strictly lower than every earlier one of the fit call
Improves == \A i \in 1 .. Len(cb.history) : EpochLoss < cb.history[i]

\* C12: at the end of an epoch a checkpoint file is written only when the
\* epoch's val_loss is strictly lower than every earlier val_loss of the same
\* fit call, the file written then carries that epoch and that val_loss and
\* no other file or directory changes, and an epoch without improvement
\* leaves every directory as it was; and once the old checkpoints are
\* removed the val_loss values of the files of a checkpoint directory
\* strictly decrease in order of creation.
C12_StrictImprovement ==
    /\ [](Ran("rmtree", "-") =>
            \A m \in Models : \A i, j \in 1 .. Len(FilesOf(m)) :
                i < j => /\ FilesOf(m)[i].mtime < FilesOf(m)[j].mtime
                         /\ FilesOf(m)[i].val > FilesOf(m)[j].val)
    /\ [][\A m \in Models :
            EpochEnds(m) =>
                /\ fs' # fs => Improves
                /\ ~Improves => fs' = fs
                /\ Improves =>
                      /\ \A d \in Dirs \ {SaveDir(m)} : fs'[d] = fs[d]
                      /\ fs'[SaveDir(m)].files =
                            Append(FilesOf(m),
                                   [name |-> CheckpointName(cb'.epoch, EpochLoss),
                                    mtime |-> clock,
                                    w |-> Snapshot(weights', layersOf[m]),
                                    val |-> EpochLoss])]_vars

\* the mixture trained for three epochs: the first two each improved and left
\* a file, the third repeated the loss of the second and left none
C12_Witness ==
    /\ cb.dir = SaveDir("moe")
    /\ Len(cb.history) = 3
    /\ cb.history[1] > cb.history[2]
    /\ cb.history[3] = cb.history[2]
    /\ Len(FilesOf("moe")) = 2
    /\ FilesOf("moe")[1].val = cb.history[1]
    /\ FilesOf("moe")[2].val = cb.history[2]
    /\ FilesOf("moe")[1].name.loss = FilesOf("moe")[2].name.loss

-----------------------------------------------------------------------------
(* Pairing of images and labels (SpecData). *)

\* x and y have one length and the i-th label is the label the dataset gives
\* the i-th image
Paired(x, y, rawLabels) ==
    /\ Len(x) = Len(y)
    /\ \A i \in 1 .. Len(x) : y[i] = rawLabels[x[i]]

\* the same for targets: the i-th target is the one-hot row, over n classes,
\* of enc applied to the label of the i-th image
PairedTargets(x, y, rawLabels, n, enc(_)) ==
    /\ Len(x) = Len(y)
    /\ \A i \in 1 .. Len(x) :
          y[i] = [c \in 0 .. (n - 1) |-> IF c = enc(rawLabels[x[i]]) THEN 1 ELSE 0]

Same(label) == label
GateClass(label) == IF label \in {0, 1, 8, 9} THEN 0 ELSE 1

\* the first n of the available images, in order
Leading(x, rawX, n) ==
    /\ Len(x) = Min(n, Len(rawX))
    /\ \A i \in 1 .. Len(x) : x[i] = rawX[i]

\* xs and ys are x and y at one index list idx
SameIndexList(xs, ys, x, y, idx) ==
    /\ Len(xs) = Len(idx) /\ Len(ys) = Len(idx)
    /\ \A k \in 1 .. Len(idx) : xs[k] = x[idx[k] + 1] /\ ys[k] = y[idx[k] + 1]

\* C13: slicing keeps images and labels paired.  After truncation x_train
\* and y_train have the length min(train_examples, available) and x_test and
\* y_test the length min(test_examples, available), and hold the leading
\* images with their labels; the artificial and the natural subsets take
\* images and labels at one index list; and in every training or validation
\* set (of the baseline and the mixture, of the gate, of the two experts) the
\* i-th label or target is that of the i-th image.
C13_PairedSlicing ==
    /\ Ran("load_data", "-") =>
         /\ Leading(data.x_train, data.raw.x_train, train_examples)
         /\ Leading(data.x_test, data.raw.x_test, test_examples)
         /\ Len(data.y_train) = Min(train_examples, Len(data.raw.y_train))
         /\ Len(data.y_test) = Min(test_examples, Len(data.raw.y_test))
         /\ Paired(data.x_train, data.y_train, data.raw.y_train)
         /\ Paired(data.x_test, data.y_test, data.raw.y_test)
    /\ Ran("to_categorical", "-") =>
         /\ PairedTargets(data.x_train, data.y_train0, data.raw.y_train,
                          orig_classes, Same)
         /\ PairedTargets(data.x_test, data.y_test0, data.raw.y_test,
                          orig_classes, Same)
    /\ Ran("gate_targets", "-") =>
         /\ PairedTargets(data.x_train, data.y_trainG0, data.raw.y_train,
                          gate0_classes, GateClass)
         /\ PairedTargets(data.x_test, data.y_testG0, data.raw.y_test,
                          gate0_classes, GateClass)
    /\ Ran("art_subset", "-") /\ ~Ran("art_categorical", "-") =>
         /\ SameIndexList(data.x_trainArt, data.y_trainArt, data.x_train,
                          data.y_train, data.artTrain)
         /\ SameIndexList(data.x_testArt, data.y_testArt, data.x_test,
                          data.y_test, data.artTest)
         /\ Paired(data.x_trainArt, data.y_trainArt, data.raw.y_train)
         /\ Paired(data.x_testArt, data.y_testArt, data.raw.y_test)
    /\ Ran("art_categorical", "-") =>
         /\ PairedTargets(data.x_trainArt, data.y_trainArt, data.raw.y_train,
                          orig_classes, Same)
         /\ PairedTargets(data.x_testArt, data.y_testArt, data.raw.y_test,
                          orig_classes, Same)
    /\ Ran("nat_subset", "-") /\ ~Ran("nat_categorical", "-") =>
         /\ SameIndexList(data.x_trainNat, data.y_trainNat, data.x_train,
                          data.y_train, data.natureTrain)
         /\ SameIndexList(data.x_testNat, data.y_testNat, data.x_test,
                          data.y_test, data.natureTest)
         /\ Paired(data.x_trainNat, data.y_trainNat, data.raw.y_train)
         /\ Paired(data.x_testNat, data.y_testNat, data.raw.y_test)
    /\ Ran("nat_categorical", "-") =>
         /\ PairedTargets(data.x_trainNat, data.y_trainNat, data.raw.y_train,
                          orig_classes, Same)
         /\ PairedTargets(data.x_testNat, data.y_testNat, data.raw.y_test,
                          orig_classes, Same)

\* the training set offers more than train_examples and is cut, the test set
\* offers fewer than test_examples and is kept whole, the first artificial
\* image is the second of the training set and the natural subset is not empty
C13_Witness ==
    /\ Ran("nat_categorical", "-")
    /\ Len(data.raw.x_train) > train_examples
    /\ Len(data.x_train) = train_examples
    /\ Len(data.raw.x_test) < test_examples
    /\ Len(data.x_test) = Len(data.raw.x_test)
    /\ Len(data.x_trainArt) >= 1
    /\ data.x_trainArt[1] = 2
    /\ Len(data.y_trainArt) = Len(data.x_trainArt)
    /\ Len(data.x_trainNat) >= 1
    /\ data.x_trainNat[1] = 1

-----------------------------------------------------------------------------
(* Range of the mixture's output (SpecMoE). *)

\* the sum of the entries of a vector indexed 0 .. n-1
RECURSIVE SumTo(_, _)
SumTo(v, n) == IF n = 0 THEN 0 ELSE v[n - 1] + SumTo(v, n - 1)

\* 1.0 for a product of two softmax entries
One == Unit * Unit

\* C14: for every input sample every entry of the mixture's 10-class output
\* is between 0 and 1 and the 10 entries sum to at most 1, while each of the
\* outputs it blends (baseline, artificial expert, natural expert) sums to 1.
\* That the output is not renormalised and can sum to less than 1 is the
\* state C14_Witness.
C14_OutputRange ==
    Ran("predict", "moe") =>
        \A s \in 1 .. Len(mix.out) :
            /\ SumTo(mix.gx[0][s], orig_classes) = Unit
            /\ SumTo(mix.gx[2][s], orig_classes) = Unit
            /\ SumTo(mix.gx[3][s], orig_classes) = Unit
            /\ \A c \in Classes : mix.out[s][c] >= 0 /\ mix.out[s][c] <= One
            /\ SumTo(mix.out[s], orig_classes) <= One

\* a batch of two: the output for the first sample sums to less than 1, the
\* output for the second, all of whose networks are saturated, to exactly 1
C14_Witness ==
    /\ Ran("predict", "moe")
    /\ Len(mix.out) = 2
    /\ SumTo(mix.out[1], orig_classes) > 0
    /\ SumTo(mix.out[1], orig_classes) < One
    /\ SumTo(mix.out[2], orig_classes) = One
    /\ \E c \in Classes : mix.out[2][c] = One

====
